---- MODULE Spec2Model ----
(***************************************************************************)
(* Model of the commission reconciliation program (src/reconcile_app.py):  *)
(* key normalisation, period inference, one reconciliation run            *)
(* (process_reconciliation) and the batch loop that drives the runs.       *)
(*                                                                         *)
(* Texts are TLA+ strings; a character is a string of length one.  Cell    *)
(* values of a sheet are records tagged with their Python type.            *)
(***************************************************************************)
EXTENDS Integers, Sequences, FiniteSets, TLC

VARIABLES pc,            \* position of the specification's single process
          raw,           \* norm_key: the raw cell value v
          key,           \* norm_key(v)
          key2,          \* norm_key(norm_key(v))
          name,          \* extract_period_from_name: its argument
          period,        \* extract_period_from_name(name)
          hot_name,      \* choose_period: the Hoteliers file name
          com_name,      \* choose_period: the OTA file name
          hot_earliest,  \* choose_period: earliest Hoteliers date or None
          com_earliest,  \* choose_period: earliest OTA date or None
          chosen,        \* choose_period(...)
          hot_file,      \* process_reconciliation: the Hoteliers workbook
          ota_file,      \* process_reconciliation: the OTA workbook
          target_period, \* period the run is scoped to
          included_rows, \* Hoteliers rows copied to the output sheet
          hot_out_keys,  \* keys of the copied Hoteliers rows
          com_keys,      \* keys of the OTA sheet
          only_hot,      \* keys missing in the OTA sheet
          only_com,      \* keys missing in the Hoteliers sheet
          hot_fill,      \* output Hoteliers sheet: data rows filled red
          com_fill,      \* output OTA sheet: data rows filled red
          nm,            \* the NotMatched sheet
          hot_buffers,   \* batch: the uploaded Hoteliers files
          ota_files,     \* batch: the uploaded OTA files
          idx,           \* batch: position of the loop in ota_files
          messages,      \* batch: the st.success / st.error / st.warning shown so far
          filter_ota,    \* channel filter: target_ota_type
          cell_val,      \* channel filter: val, the channel cell of a row
          is_match       \* channel filter: is_match

normVars == <<raw, key, key2>>
periodVars == <<name, period>>
chooseVars == <<hot_name, com_name, hot_earliest, com_earliest, chosen>>

fileVars == <<hot_file, ota_file>>
diffVars == <<target_period, included_rows, hot_out_keys, com_keys, only_hot>>
reportVars == <<hot_fill, com_fill, nm>>
runVars == <<fileVars, diffVars, only_com, reportVars>>

batchVars == <<hot_buffers, ota_files, idx, messages>>

filterVars == <<filter_ota, cell_val, is_match>>

vars == <<pc, normVars, periodVars, chooseVars, runVars, batchVars, filterVars>>

(***************************************************************************)
(* Bounds of the model.                                                    *)
(***************************************************************************)
MaxLen == 3        \* longest raw identifier handed to norm_key
MaxHotRows == 2    \* most data rows of a Hoteliers sheet (before its summary row)
MaxComRows == 2    \* most data rows of an OTA sheet
MaxHotFiles == 2   \* most Hoteliers files of a batch
MaxOtaFiles == 2   \* most OTA files of a batch

(***************************************************************************)
(* Characters and texts.                                                   *)
(***************************************************************************)
LowerLetters == "abcdefghijklmnopqrstuvwxyz"
UpperLetters == "ABCDEFGHIJKLMNOPQRSTUVWXYZ"
DigitChars == "0123456789"

CharAt(s, i) == SubSeq(s, i, i)

\* s[i] where it exists, "" outside the text (a regex finds no character there)
At(s, i) == IF i \in 1..Len(s) THEN SubSeq(s, i, i) ELSE ""

\* the Python slice s[i-1:j] in 1-based inclusive positions, clipped to the text
Slice(s, i, j) ==
    LET a == IF i < 1 THEN 1 ELSE i
        b == IF j > Len(s) THEN Len(s) ELSE j
    IN  IF a > b THEN "" ELSE SubSeq(s, a, b)

CharsOf(s) == {CharAt(s, i) : i \in 1..Len(s)}

Lowers == CharsOf(LowerLetters)
Uppers == CharsOf(UpperLetters)
Digits == CharsOf(DigitChars)

\* Characters str.strip() removes and the regex class \s matches.
Whitespace == {" ", "\t", "\n"}

IndexIn(s, c) == CHOOSE i \in 1..Len(s) : CharAt(s, i) = c

ToUpper == [c \in Lowers |-> CharAt(UpperLetters, IndexIn(LowerLetters, c))]

ToLower == [c \in Uppers |-> CharAt(LowerLetters, IndexIn(UpperLetters, c))]

\* str.upper() / str.lower() on one character.
UpperChar(c) == IF c \in Lowers THEN ToUpper[c] ELSE c

LowerChar(c) == IF c \in Uppers THEN ToLower[c] ELSE c

RECURSIVE MapChars(_, _, _)
MapChars(s, i, up) ==
    IF i > Len(s) THEN ""
    ELSE (IF up THEN UpperChar(CharAt(s, i)) ELSE LowerChar(CharAt(s, i))) \o MapChars(s, i + 1, up)

Upper(s) == MapChars(s, 1, TRUE)

Lower(s) == MapChars(s, 1, FALSE)

\* str.strip(): drop leading and trailing whitespace.
Strip(s) ==
    LET keep == {i \in 1..Len(s) : CharAt(s, i) \notin Whitespace}
    IN  IF keep = {} THEN ""
        ELSE SubSeq(s, CHOOSE i \in keep : \A j \in keep : i <= j,
                       CHOOSE i \in keep : \A j \in keep : j <= i)

\* re.sub of a character class by "": delete every character of the class.
RECURSIVE DeleteChars(_, _)
DeleteChars(s, class) ==
    IF s = "" THEN ""
    ELSE (IF CharAt(s, 1) \in class THEN "" ELSE CharAt(s, 1)) \o DeleteChars(Tail(s), class)

\* re.sub of a negated character class by "": keep the characters of the class
RECURSIVE KeepOnly(_, _)
KeepOnly(s, class) ==
    IF s = "" THEN ""
    ELSE (IF CharAt(s, 1) \in class THEN CharAt(s, 1) ELSE "") \o KeepOnly(Tail(s), class)

\* substring test: sub in s
Contains(s, sub) == \E i \in 1..(Len(s) - Len(sub) + 1) : SubSeq(s, i, i + Len(sub) - 1) = sub

(***************************************************************************)
(* Cell values: None, text, or a datetime.                                 *)
(***************************************************************************)
None == [t |-> "none"]

Text(s) == [t |-> "str", s |-> s]

\* a datetime value (the time of day plays no part in the program)
Date(y, m, d) == [t |-> "datetime", y |-> y, m |-> m, d |-> d]

DigitVal(c) == IndexIn(DigitChars, c) - 1

\* int(text) for a text of decimal digits
RECURSIVE ParseInt(_)
ParseInt(s) ==
    IF s = "" THEN 0
    ELSE 10 * ParseInt(SubSeq(s, 1, Len(s) - 1)) + DigitVal(CharAt(s, Len(s)))

\* str(n) for a natural number
RECURSIVE IntStr(_)
IntStr(n) ==
    IF n < 10 THEN CharAt(DigitChars, n + 1)
    ELSE IntStr(n \div 10) \o CharAt(DigitChars, (n % 10) + 1)

\* str(v) for the cell values of the model
Str(v) ==
    CASE v.t = "str" -> v.s
      [] v.t = "int" -> IntStr(v.n)
      [] OTHER -> "None"

(***************************************************************************)
(* norm_key                                                                *)
(***************************************************************************)
norm_key(v) ==
    LET s0 == IF v = None THEN "" ELSE Str(v)
        s1 == Upper(Strip(s0))
    IN  DeleteChars(s1, {" ", "-"})

(***************************************************************************)
(* Period inference: monyy, extract_period_from_name, choose_period        *)
(***************************************************************************)
MONTH_ABBR == <<"Jan", "Feb", "Mar", "Apr", "May", "Jun",
                "Jul", "Aug", "Sep", "Oct", "Nov", "Dec">>

\* MONTH_MAP[k] for a lower-case three-letter key k of the map
MONTH_MAP(k) == CHOOSE m \in 1..12 : Lower(MONTH_ABBR[m]) = k

MonthKeys == {Lower(MONTH_ABBR[m]) : m \in 1..12}

\* s[-2:]
LastTwo(s) == Slice(s, Len(s) - 1, Len(s))

monyy(y, m) == (IF m \in 1..12 THEN MONTH_ABBR[m] ELSE "Mon") \o "'" \o LastTwo(IntStr(y))

\* the regex classes \w, \d, \D and the assertion \b
WordChars == Lowers \cup Uppers \cup Digits \cup {"_"}

IsWordChar(c) == c \in WordChars

WordAt(s, i) == i \in 1..Len(s) /\ IsWordChar(CharAt(s, i))

DigitAt(s, i) == i \in 1..Len(s) /\ CharAt(s, i) \in Digits

NonDigitAt(s, i) == i \in 1..Len(s) /\ CharAt(s, i) \notin Digits

\* \b holds in front of position i
Boundary(s, i) == WordAt(s, i - 1) # WordAt(s, i)

StartsAt(s, i, w) == i >= 1 /\ i + Len(w) - 1 <= Len(s) /\ SubSeq(s, i, i + Len(w) - 1) = w

\* the position after the longest run of whitespace that starts at i (\s*)
RECURSIVE SkipSpace(_, _)
SkipSpace(s, i) == IF At(s, i) \in Whitespace THEN SkipSpace(s, i + 1) ELSE i

\* (0[1-9]|1[0-2]) at position i
NonZeroDigits == Digits \ {"0"}

MonthNumAt(s, i) ==
    \/ (At(s, i) = "0" /\ At(s, i + 1) \in NonZeroDigits)
    \/ (At(s, i) = "1" /\ At(s, i + 1) \in {"0", "1", "2"})

\* (20\d{2}) at position i
YearAt(s, i) == StartsAt(s, i, "20") /\ DigitAt(s, i + 2) /\ DigitAt(s, i + 3)

\* [ _./-]
DateSeps == {" ", "_", ".", "/", "-"}

\* the alternatives of the second pattern's first group
MonthWords ==
    {"jan", "january", "feb", "february", "mar", "march", "apr", "april", "may",
     "jun", "june", "jul", "july", "aug", "august", "sep", "sept", "september",
     "oct", "october", "nov", "november"}

\* Python's None and falsy values under "or" / "if not"
Falsy(v) == v = None \/ (v.t = "str" /\ v.s = "")

Leftmost(S) == CHOOSE i \in S : \A j \in S : i <= j

\* r"\b(jan|...|dec)\s*'(\d{2})\b": the match that starts at i, as <<month key, yy>>
Pat1At(n, i) ==
    LET q == SkipSpace(n, i + 3)
    IN  IF /\ Boundary(n, i)
           /\ Slice(n, i, i + 2) \in MonthKeys
           /\ At(n, q) = "'"
           /\ DigitAt(n, q + 1) /\ DigitAt(n, q + 2)
           /\ Boundary(n, q + 3)
        THEN {<<Slice(n, i, i + 2), Slice(n, q + 1, q + 2)>>}
        ELSE {}

\* r"\b(jan(?:uary)?|...|nov(?:ember)?)\D{0,3}(20\d{2})\b" at i, as <<group 1, group 2>>
YearAfter(n, from, p) ==
    /\ \A j \in from..(p - 1) : NonDigitAt(n, j)
    /\ YearAt(n, p)
    /\ Boundary(n, p + 4)

Pat2At(n, i) ==
    IF Boundary(n, i) /\ Slice(n, i, i + 2) \in MonthKeys
    THEN {<<w, Slice(n, i + Len(w) + k, i + Len(w) + k + 3)>> :
            <<w, k>> \in {x \in {v \in MonthWords : StartsAt(n, i, v)} \X (0..3) :
                 YearAfter(n, i + Len(x[1]), i + Len(x[1]) + x[2])}}
    ELSE {}

\* r"\b(20\d{2})[ _./-](0[1-9]|1[0-2])\b" at i, as <<yyyy, mm>>
Pat3At(n, i) ==
    IF /\ Boundary(n, i) /\ YearAt(n, i) /\ At(n, i + 4) \in DateSeps
       /\ MonthNumAt(n, i + 5) /\ Boundary(n, i + 7)
    THEN {<<Slice(n, i, i + 3), Slice(n, i + 5, i + 6)>>}
    ELSE {}

\* r"\b(0[1-9]|1[0-2])[ _./-](20\d{2})\b" at i, as <<mm, yyyy>>
Pat4At(n, i) ==
    IF /\ Boundary(n, i) /\ MonthNumAt(n, i) /\ At(n, i + 2) \in DateSeps
       /\ YearAt(n, i + 3) /\ Boundary(n, i + 7)
    THEN {<<Slice(n, i, i + 1), Slice(n, i + 3, i + 6)>>}
    ELSE {}

Groups(g) == [t |-> "match", g1 |-> g[1], g2 |-> g[2]]

\* ms[i] holds the matches of a pattern that start at position i
LeftmostMatch(ms, hits) ==
    IF hits = {} THEN None ELSE Groups(CHOOSE x \in ms[Leftmost(hits)] : TRUE)

\* re.search: the groups of the leftmost match, or None
Search(ms) == LeftmostMatch(ms, {i \in DOMAIN ms : ms[i] # {}})

Pat1(n) == [i \in 1..Len(n) |-> Pat1At(n, i)]

Pat2(n) == [i \in 1..Len(n) |-> Pat2At(n, i)]

Pat3(n) == [i \in 1..Len(n) |-> Pat3At(n, i)]

Pat4(n) == [i \in 1..Len(n) |-> Pat4At(n, i)]

\* the four "m = re.search(...); if m: return monyy(...)" in their order
FirstMatch(m1, m2, m3, m4) ==
    IF m1 # None THEN Text(monyy(ParseInt("20" \o m1.g2), MONTH_MAP(m1.g1)))
    ELSE IF m2 # None THEN Text(monyy(ParseInt(m2.g2), MONTH_MAP(Slice(m2.g1, 1, 3))))
    ELSE IF m3 # None THEN Text(monyy(ParseInt(m3.g1), ParseInt(m3.g2)))
    ELSE IF m4 # None THEN Text(monyy(ParseInt(m4.g2), ParseInt(m4.g1)))
    ELSE None

ExtractLower(n) ==
    FirstMatch(Search(Pat1(n)), Search(Pat2(n)), Search(Pat3(n)), Search(Pat4(n)))

extract_period_from_name(fname) ==
    IF Falsy(fname) THEN None ELSE ExtractLower(Lower(fname.s))

\* Python's "a or b"
Or(a, b) == IF Falsy(a) THEN b ELSE a

\* fmt(dt) of choose_period: dt.strftime("%b'%y") for a datetime, else None
Fmt(dt) ==
    IF dt.t = "datetime"
    THEN Text(MONTH_ABBR[dt.m] \o "'" \o IntStr((dt.y % 100) \div 10) \o IntStr(dt.y % 10))
    ELSE None

\* "if not p: p = fmt(com_earliest) or fmt(hot_earliest) or 'Period'"
PeriodOrDates(p, hdate, cdate) ==
    IF Falsy(p) THEN Or(Fmt(cdate), Or(Fmt(hdate), Text("Period"))) ELSE p

ChoosePeriodLeftFirst(hname, cname, hdate, cdate) ==
    PeriodOrDates(Or(extract_period_from_name(hname), extract_period_from_name(cname)),
                  cdate, hdate)

choose_period(hname, cname, hdate, cdate) ==
    PeriodOrDates(Or(extract_period_from_name(cname), extract_period_from_name(hname)),
                  hdate, cdate)

(***************************************************************************)
(* Brand inference: infer_ota, canon_ota                                   *)
(***************************************************************************)
\* the keyword tests of infer_ota on the lower-cased text t
BrandOf(t) ==
    IF Contains(t, "booking") THEN "Booking.com"
    ELSE IF Contains(t, "expedia") \/ Contains(t, "hotels.com") THEN "Expedia"
    ELSE IF Contains(t, "agoda") THEN "Agoda"
    ELSE IF Contains(t, "traveloka") THEN "Traveloka"
    ELSE IF Contains(t, "trip.com") \/ Contains(t, "ctrip") THEN "Trip.com"
    ELSE "OTA"

infer_ota(text) == BrandOf(Lower(IF Falsy(text) THEN "" ELSE text.s))

LowerAlnum == Lowers \cup Digits

UpperAlnum == Uppers \cup Digits

\* the brand tests of canon_ota on the stripped label n
CanonBrand(n) ==
    IF Contains(n, "bookingcom") \/ Contains(n, "booking") THEN "Booking.com"
    ELSE IF Contains(n, "expedia") \/ Contains(n, "hotelscom") \/ Contains(n, "hotels")
         THEN "Expedia"
         ELSE n

canon_ota(label) == CanonBrand(KeepOnly(Lower(label), LowerAlnum))

(***************************************************************************)
(* Sheets.  A Hoteliers sheet has its headers in rows 1-2 and its rows     *)
(* from row 3 on: rows[i] is sheet row i + 2, with the cells of the        *)
(* reservation, departure, arrival and channel columns.  An OTA sheet has  *)
(* its header in row 1 and its rows from row 2 on, with the cells of the   *)
(* reservation, arrival, final amount and commission amount columns.       *)
(***************************************************************************)
\* dateutil's parse(text, fuzzy=True) on the date texts of the model:
\* a datetime, or None where it raises
du_parse(s) ==
    CASE s = "2025-12-03" -> Date(2025, 12, 3)
      [] s = "20 Nov 2025" -> Date(2025, 11, 20)
      [] OTHER -> None

Blank(v) == v = None \/ (v.t = "str" /\ v.s = "")

\* a date cell as collect_hoteliers and collect_commission_excel read it
CellDate(v) ==
    IF v.t = "datetime" THEN v
    ELSE IF ~Blank(v) THEN du_parse(Str(v)) ELSE None

\* dt < other for two datetimes
DateLess(a, b) ==
    \/ a.y < b.y
    \/ (a.y = b.y /\ a.m < b.m)
    \/ (a.y = b.y /\ a.m = b.m /\ a.d < b.d)

\* "if dt and (earliest is None or dt < earliest): earliest = dt"
Earlier(earliest, dt) ==
    IF dt # None /\ (earliest = None \/ DateLess(dt, earliest)) THEN dt ELSE earliest

\* the running minimum over the first n dates
RECURSIVE Earliest(_, _)
Earliest(dates, n) == IF n = 0 THEN None ELSE Earlier(Earliest(dates, n - 1), dates[n])

EmptyRow(row) == Blank(row.res) /\ Blank(row.dep) /\ Blank(row.arr) /\ Blank(row.chan)

\* collect_hoteliers: last data row, as an index into rows
LastOrZero(S) == IF S = {} THEN 0 ELSE CHOOSE i \in S : \A j \in S : j <= i

\* max(2, last_nonempty - 1), as an index into rows
BackOffOne(last_nonempty) == IF last_nonempty - 1 > 0 THEN last_nonempty - 1 ELSE 0

DataEnd(rows) == BackOffOne(LastOrZero({i \in 1..Len(rows) : ~EmptyRow(rows[i])}))

\* collect_hoteliers: the date of a row, departure first, arrival as fallback
DateOr(dt, arr) == IF dt = None THEN CellDate(arr) ELSE dt

RowDate(row) == DateOr(CellDate(row.dep), row.arr)

PeriodOf(dt) == IF dt # None THEN monyy(dt.y, dt.m) ELSE "Unknown"

RowPeriod(row) == PeriodOf(RowDate(row))

\* the indices i with keep[i], in ascending order
SelectIdx(keep) ==
    LET F[i \in 0..Len(keep)] ==
            IF i = 0 THEN <<>>
            ELSE IF keep[i] THEN Append(F[i - 1], i) ELSE F[i - 1]
    IN  F[Len(keep)]

\* collect_hoteliers: rows_by_period.get(p, [])
RowsByPeriod(rows, p) ==
    SelectIdx([i \in 1..DataEnd(rows) |->
                 RowPeriod(rows[i]) = p /\ norm_key(rows[i].res) # ""])

EarliestOf(rows, n) == Earliest([i \in 1..n |-> RowDate(rows[i])], n)

HotEarliest(rows) == EarliestOf(rows, DataEnd(rows))

ComKeysNonZero(rows) ==
    {norm_key(rows[i].res) : i \in {j \in 1..Len(rows) :
        rows[j].final.n # 0 /\ rows[j].comm.n # 0}} \ {""}

\* collect_commission_excel
ComKeys(rows) == {norm_key(rows[i].res) : i \in 1..Len(rows)} \ {""}

ComEarliest(rows) ==
    Earliest([i \in 1..Len(rows) |->
                 IF rows[i].arr.t = "datetime" THEN rows[i].arr
                 ELSE IF Falsy(rows[i].arr) THEN None ELSE du_parse(Str(rows[i].arr))],
             Len(rows))

\* "try: x = float(cell or 0) / except: pass" with x preset to 0
FloatOrZero(v) ==
    CASE v.t = "int" -> v.n
      [] v.t = "str" /\ v.s # "" /\ CharsOf(v.s) \subseteq Digits -> ParseInt(v.s)
      [] OTHER -> 0

EndsWith(s, suf) == Len(s) >= Len(suf) /\ SubSeq(s, Len(s) - Len(suf) + 1, Len(s)) = suf

\* sorted(keys): ascending by code point
CodeOrder == "\t\n '-./0123456789ABCDEFGHIJKLMNOPQRSTUVWXYZ_abcdefghijklmnopqrstuvwxyz"

Code(c) == IndexIn(CodeOrder, c)

RECURSIVE StrLess(_, _)
StrLess(a, b) ==
    IF b = "" THEN FALSE
    ELSE IF a = "" THEN TRUE
    ELSE IF CharAt(a, 1) = CharAt(b, 1) THEN StrLess(Tail(a), Tail(b))
    ELSE Code(CharAt(a, 1)) < Code(CharAt(b, 1))

RECURSIVE SortedDescending(_)
SortedDescending(S) ==
    IF S = {} THEN <<>>
    ELSE LET greatest == CHOOSE x \in S : \A y \in S \ {x} : StrLess(y, x)
         IN  <<greatest>> \o SortedDescending(S \ {greatest})

RECURSIVE Sorted(_)
Sorted(S) ==
    IF S = {} THEN <<>>
    ELSE LET least == CHOOSE x \in S : \A y \in S \ {x} : StrLess(x, y)
         IN  <<least>> \o Sorted(S \ {least})

(***************************************************************************)
(* Inputs of the pure functions.                                           *)
(***************************************************************************)
IdAlphabet == {"a", "B", "1", "-", " ", "\t", "."}

RECURSIVE Texts(_, _)
Texts(alphabet, n) ==
    IF n = 0 THEN {""}
    ELSE LET shorter == Texts(alphabet, n - 1)
         IN  shorter \cup {s \o c : s \in shorter, c \in alphabet}

IntCell(n) == [t |-> "int", n |-> n]

RawIds == {None} \cup {Text(s) : s \in Texts(IdAlphabet, MaxLen)} \cup {IntCell(7), IntCell(1204)}

Capitalize(w) == UpperChar(CharAt(w, 1)) \o Tail(w)

FullMonthNames ==
    <<"january", "february", "march", "april", "may", "june", "july", "august",
      "september", "october", "november", "december">>

\* the full and the three-letter name of every month, in lower case and capitalised
MonthNameTexts ==
    LET low == {FullMonthNames[m] : m \in 1..12} \cup MonthKeys \cup {"sept"}
    IN  low \cup {Capitalize(w) : w \in low}

PeriodNames ==
    {None, Text(""), Text("report.xlsx"), Text("2025-12"), Text("kt_2025-12.xlsx"),
     Text("12-2025"), Text("2025.07 booking"), Text("13-2025"), Text("2025-00"),
     Text("jan'24 2025-12"), Text("2025-12 jan 2024"), Text("2024-11 12-2025"),
     Text("03/2024 nov'25"), Text("market 2025"), Text("dec'25x")}
    \cup {Text(pre \o w \o sep \o y \o suf) :
            pre \in {"", "kt "}, w \in MonthNameTexts, sep \in {"", " ", "-", "_", "'", " '"},
            y \in {"2025", "25"}, suf \in {"", ".xlsx"}}

ChooseNames ==
    {Text("hoteliers.xlsx"), Text(""), Text("booking dec'25.xlsx"), Text("kt nov 2025.xlsx"),
     Text("expedia_2025-10.pdf"), Text("agoda december 2025.xlsx")}

EarliestDates == {None, Date(2025, 12, 3), Date(2025, 11, 20), Date(2026, 1, 5)}

(***************************************************************************)
(* NormSpec: norm_key applied to a raw identifier, then to its own result. *)
(***************************************************************************)
NormInit ==
    /\ pc = "norm"
    /\ raw \in RawIds
    /\ key = None /\ key2 = None
    /\ name = None /\ period = None
    /\ hot_name = None /\ com_name = None /\ hot_earliest = None /\ com_earliest = None
    /\ chosen = None
    /\ filter_ota = None /\ cell_val = None /\ is_match = None
    /\ hot_file = None /\ ota_file = None /\ target_period = None /\ included_rows = None
    /\ hot_out_keys = None /\ com_keys = None /\ only_hot = None /\ only_com = None
    /\ hot_fill = None /\ com_fill = None /\ nm = None
    /\ hot_buffers = None /\ ota_files = None /\ idx = None /\ messages = None

Normalize ==
    /\ pc = "norm"
    /\ key' = norm_key(raw)
    /\ pc' = "normed"
    /\ UNCHANGED <<raw, key2, periodVars, chooseVars, runVars, batchVars, filterVars>>

Renormalize ==
    /\ pc = "normed"
    /\ key2' = norm_key(Text(key))
    /\ pc' = "renormed"
    /\ UNCHANGED <<raw, key, periodVars, chooseVars, runVars, batchVars, filterVars>>

NormNext == Normalize \/ Renormalize

NormSpec == NormInit /\ [][NormNext]_vars

(***************************************************************************)
(* PeriodSpec: extract_period_from_name applied to a file name.            *)
(***************************************************************************)
PeriodInit ==
    /\ pc = "name"
    /\ name \in PeriodNames
    /\ period = None
    /\ raw = None /\ key = None /\ key2 = None
    /\ hot_name = None /\ com_name = None /\ hot_earliest = None /\ com_earliest = None
    /\ chosen = None
    /\ filter_ota = None /\ cell_val = None /\ is_match = None
    /\ hot_file = None /\ ota_file = None /\ target_period = None /\ included_rows = None
    /\ hot_out_keys = None /\ com_keys = None /\ only_hot = None /\ only_com = None
    /\ hot_fill = None /\ com_fill = None /\ nm = None
    /\ hot_buffers = None /\ ota_files = None /\ idx = None /\ messages = None

ExtractPeriod ==
    /\ pc = "name"
    /\ period' = extract_period_from_name(name)
    /\ pc' = "extracted"
    /\ UNCHANGED <<name, normVars, chooseVars, runVars, batchVars, filterVars>>

PeriodNext == ExtractPeriod

PeriodSpec == PeriodInit /\ [][PeriodNext]_vars

(***************************************************************************)
(* ChooseSpec: choose_period applied to two file names and two dates.      *)
(***************************************************************************)
ChooseInit ==
    /\ pc = "choose"
    /\ hot_name \in ChooseNames
    /\ com_name \in ChooseNames
    /\ hot_earliest \in EarliestDates
    /\ com_earliest \in EarliestDates
    /\ chosen = None
    /\ filter_ota = None /\ cell_val = None /\ is_match = None
    /\ raw = None /\ key = None /\ key2 = None
    /\ name = None /\ period = None
    /\ hot_file = None /\ ota_file = None /\ target_period = None /\ included_rows = None
    /\ hot_out_keys = None /\ com_keys = None /\ only_hot = None /\ only_com = None
    /\ hot_fill = None /\ com_fill = None /\ nm = None
    /\ hot_buffers = None /\ ota_files = None /\ idx = None /\ messages = None

ChoosePeriod ==
    /\ pc = "choose"
    /\ chosen' = choose_period(hot_name, com_name, hot_earliest, com_earliest)
    /\ pc' = "chosen"
    /\ UNCHANGED <<hot_name, com_name, hot_earliest, com_earliest, normVars, periodVars, runVars, batchVars, filterVars>>

ChooseNext == ChoosePeriod

ChooseSpec == ChooseInit /\ [][ChooseNext]_vars

(***************************************************************************)
(* Spec: one run of process_reconciliation on a Hoteliers workbook and an  *)
(* OTA workbook (a spreadsheet; the PDF branch is not part of the model).  *)
(***************************************************************************)
RECURSIVE SeqsUpTo(_, _)
SeqsUpTo(S, n) ==
    IF n = 0 THEN {<<>>}
    ELSE LET shorter == SeqsUpTo(S, n - 1)
         IN  shorter \cup {Append(q, x) : q \in shorter, x \in S}

\* the summary row that closes a Hoteliers export
TotalRow == [res |-> Text("Total"), dep |-> None, arr |-> None, chan |-> None]

HotKeyCells == {Text("a-1"), Text("B")}

\* Hoteliers rows of a sheet with a channel column
HotRowsWithChannel ==
    [res : HotKeyCells, dep : {Date(2025, 12, 3)}, arr : {None},
     chan : {Text("Booking.com"), Text("Agoda")}]
    \cup {[res |-> Text("B"), dep |-> Text("n/a"), arr |-> None, chan |-> Text("Booking.com")]}

\* Hoteliers rows of a sheet without one
HotRowsNoChannel ==
    {[res |-> Text("a-1"), dep |-> Text("2025-12-03"), arr |-> None, chan |-> None],
     [res |-> Text("B"), dep |-> None, arr |-> Text("20 Nov 2025"), chan |-> None],
     [res |-> Text("B"), dep |-> None, arr |-> None, chan |-> None]}

HotFile(n, col, rs) == [name |-> n, readable |-> TRUE, ota_col |-> col, rows |-> Append(rs, TotalRow)]

HotFiles ==
    {HotFile("hoteliers.xlsx", TRUE, rs) : rs \in SeqsUpTo(HotRowsWithChannel, MaxHotRows)}
    \cup {HotFile("hoteliers.xlsx", FALSE, rs) : rs \in SeqsUpTo(HotRowsNoChannel, MaxHotRows)}

ComKeyCells == {Text("A1"), Text("c")}

ComRow(k, a, f, c) == [res |-> k, arr |-> a, final |-> IntCell(f), comm |-> IntCell(c)]

\* rows of a Booking.com statement: the amounts vary
BookingRows ==
    {ComRow(k, None, amt[1], amt[2]) : k \in ComKeyCells, amt \in {<<0, 0>>, <<100, 10>>}}
    \cup {ComRow(Text("c"), None, 100, 0)}

\* rows of another statement: the dates vary
OtherRows ==
    {ComRow(Text("A1"), None, 100, 10), ComRow(Text("c"), None, 100, 10),
     ComRow(Text("c"), Date(2025, 11, 20), 100, 10)}

OtaFile(n, rs) == [name |-> n, readable |-> TRUE, rows |-> rs]

OtaFiles ==
    {OtaFile("booking dec'25.xlsx", rs) : rs \in SeqsUpTo(BookingRows, MaxComRows)}
    \cup {OtaFile(n, rs) : n \in {"agoda.xlsx", "report.xlsx"}, rs \in SeqsUpTo(OtherRows, MaxComRows)}

Init ==
    /\ pc = "run"
    /\ hot_file \in HotFiles
    /\ ota_file \in OtaFiles
    /\ target_period = None /\ included_rows = None
    /\ hot_out_keys = None /\ com_keys = None /\ only_hot = None /\ only_com = None
    /\ hot_fill = None /\ com_fill = None /\ nm = None
    /\ hot_buffers = None /\ ota_files = None /\ idx = None /\ messages = None
    /\ raw = None /\ key = None /\ key2 = None
    /\ name = None /\ period = None
    /\ hot_name = None /\ com_name = None /\ hot_earliest = None /\ com_earliest = None
    /\ chosen = None
    /\ filter_ota = None /\ cell_val = None /\ is_match = None

\* step 3: the period and the OTA brand of the run
TargetPeriod(hot, ota) ==
    choose_period(Text(hot.name), Text(ota.name), HotEarliest(hot.rows), ComEarliest(ota.rows)).s

TargetOta(ota) == infer_ota(Text(ota.name))

\* step 4: the channel test of one Hoteliers row
CanonMatch(target_canon, cell_canon) ==
    target_canon = cell_canon \/ Contains(cell_canon, target_canon)

IsMatch(target_ota_type, val) ==
    IF target_ota_type = "" \/ target_ota_type = "OTA" THEN TRUE
    ELSE CanonMatch(canon_ota(target_ota_type), canon_ota(Str(val)))

\* step 4: the rows of the period that pass the channel filter, or all the
\* rows of the period when none passes or the sheet has no channel column
Filtered(hot, hot_rows_period, target_ota_type) ==
    LET pass(r) == IsMatch(target_ota_type, hot.rows[r].chan)
    IN  SelectSeq(hot_rows_period, pass)

OrAll(filtered, hot_rows_period) ==
    IF filtered = <<>> /\ hot_rows_period # <<>> THEN hot_rows_period ELSE filtered

FilterRows(hot, hot_rows_period, target_ota_type) ==
    IF hot.ota_col
    THEN OrAll(Filtered(hot, hot_rows_period, target_ota_type), hot_rows_period)
    ELSE hot_rows_period

IncludedRows(hot, p, target_ota_type) == FilterRows(hot, RowsByPeriod(hot.rows, p), target_ota_type)

HotOutKeys(hot, rows_in) == {norm_key(hot.rows[rows_in[j]].res) : j \in 1..Len(rows_in)} \ {""}

\* step 5: only_hot = hot_out_keys - com_keys
OnlyHot(hk, ck) == hk \ ck

OnlyComAll(hk, ck) == ck

\* step 5: only_com = com_keys - hot_out_keys
OnlyCom(hk, ck) == ck \ hk

\* steps 1-5, up to the two set differences
LoadAndDiff ==
    /\ pc = "run"
    /\ target_period' = TargetPeriod(hot_file, ota_file)
    /\ included_rows' = IncludedRows(hot_file, target_period', TargetOta(ota_file))
    /\ hot_out_keys' = HotOutKeys(hot_file, included_rows')
    /\ com_keys' = ComKeys(ota_file.rows)
    /\ only_hot' = OnlyHot(hot_out_keys', com_keys')
    /\ only_com' = OnlyCom(hot_out_keys', com_keys')
    /\ pc' = "diffed"
    /\ UNCHANGED <<fileVars, reportVars, normVars, periodVars, chooseVars, batchVars, filterVars>>

\* the guard of the Booking.com zero-amount rule
BookingRule(ota) == Contains(Lower(ota.name), "booking") /\ ~EndsWith(Lower(ota.name), ".pdf")

\* the row the rule inspects for key k: the first one that carries it
FirstOrZero(hits) == IF hits = {} THEN 0 ELSE Leftmost(hits)

RowToCheck(rows, k) == FirstOrZero({r \in 1..Len(rows) : norm_key(rows[r].res) = k})

\* real_only_com
NonZeroEither(rows, r) ==
    r # 0 /\ (FloatOrZero(rows[r].final) # 0 \/ FloatOrZero(rows[r].comm) # 0)

NonZeroAmounts(rows, r) ==
    r # 0 /\ FloatOrZero(rows[r].final) # 0 /\ FloatOrZero(rows[r].comm) # 0

RealOnlyCom(ota, oc) == {k \in oc : NonZeroAmounts(ota.rows, RowToCheck(ota.rows, k))}

\* the Booking.com special logic after the differences
BookingZeroAmounts ==
    /\ pc = "diffed"
    /\ only_com' = IF BookingRule(ota_file) THEN RealOnlyCom(ota_file, only_com) ELSE only_com
    /\ pc' = "suppressed"
    /\ UNCHANGED <<fileVars, diffVars, reportVars, normVars, periodVars, chooseVars, batchVars, filterVars>>

\* step 6: rows of the output Hoteliers sheet (the j-th copied row) to fill
HotFill(hot, rows_in, oh) == {j \in 1..Len(rows_in) : norm_key(hot.rows[rows_in[j]].res) \in oh}

\* step 6: rows of the OTA sheet to fill
ComFill(ota, oc) == {r \in 1..Len(ota.rows) : norm_key(ota.rows[r].res) \in oc}

\* step 7: the NotMatched sheet: the two counts of row 1 and the two columns
NotMatched(oh, oc) ==
    [hot_count |-> Cardinality(oh), com_count |-> Cardinality(oc),
     hot_col |-> Sorted(oh), com_col |-> Sorted(oc)]

\* steps 6-8: highlights and the NotMatched sheet
WriteReport ==
    /\ pc = "suppressed"
    /\ hot_fill' = HotFill(hot_file, included_rows, only_hot)
    /\ com_fill' = ComFill(ota_file, only_com)
    /\ nm' = NotMatched(only_hot, only_com)
    /\ pc' = "done"
    /\ UNCHANGED <<fileVars, diffVars, only_com, normVars, periodVars, chooseVars, batchVars, filterVars>>

Next == LoadAndDiff \/ BookingZeroAmounts \/ WriteReport

Spec == Init /\ [][Next]_vars

(***************************************************************************)
(* FilterSpec: the channel test of step 4 applied to one filter value and  *)
(* one channel cell.                                                       *)
(***************************************************************************)
\* the values infer_ota gives target_ota_type
FilterTargets == {"Booking.com", "Expedia", "Agoda", "Traveloka", "Trip.com", "OTA"}

\* channel cells of a Hoteliers row
ChannelCells ==
    {None, IntCell(7), Text("Booking.com"), Text("booking"), Text("Expedia"),
     Text("Expedia.com (Hotel collect)"), Text("Hotels.com"), Text("Agoda"),
     Text("Agoda.com (prepaid)"), Text("Trip"), Text("Trip.com"), Text("CTrip"),
     Text("Traveloka"), Text("Travel"), Text("Direct"), Text("Walk-in")}

FilterInit ==
    /\ pc = "filter"
    /\ filter_ota \in FilterTargets
    /\ cell_val \in ChannelCells
    /\ is_match = None
    /\ raw = None /\ key = None /\ key2 = None
    /\ name = None /\ period = None
    /\ hot_name = None /\ com_name = None /\ hot_earliest = None /\ com_earliest = None
    /\ chosen = None
    /\ hot_file = None /\ ota_file = None /\ target_period = None /\ included_rows = None
    /\ hot_out_keys = None /\ com_keys = None /\ only_hot = None /\ only_com = None
    /\ hot_fill = None /\ com_fill = None /\ nm = None
    /\ hot_buffers = None /\ ota_files = None /\ idx = None /\ messages = None

\* one pass of the filter loop body
MatchChannel ==
    /\ pc = "filter"
    /\ is_match' = IsMatch(filter_ota, cell_val)
    /\ pc' = "matched"
    /\ UNCHANGED <<filter_ota, cell_val, normVars, periodVars, chooseVars, runVars, batchVars>>

FilterNext == MatchChannel

FilterSpec == FilterInit /\ [][FilterNext]_vars


(***************************************************************************)
(* BatchSpec: the loop of the "Process Reconcile" button over the uploaded *)
(* OTA files.  load_workbook raises on a file that is not a readable       *)
(* workbook; such a file has readable = FALSE.                             *)
(***************************************************************************)
\* re.sub(r"[^a-z0-9]+", " ", t): every run of other characters becomes one space
RECURSIVE SpaceOut(_, _)
SpaceOut(t, in_run) ==
    IF t = "" THEN ""
    ELSE IF CharAt(t, 1) \in LowerAlnum THEN CharAt(t, 1) \o SpaceOut(Tail(t), FALSE)
    ELSE (IF in_run THEN "" ELSE " ") \o SpaceOut(Tail(t), TRUE)

\* the name fragments and the padded short codes of infer_hotel, in its order
HotelCode(norm, pad) ==
    IF Contains(norm, "katathani") THEN "KT"
    ELSE IF Contains(norm, "the shore") THEN "TS"
    ELSE IF Contains(norm, "the waters") \/ Contains(norm, "waters") THEN "WAT"
    ELSE IF Contains(norm, "the little shore") \/ Contains(norm, "little shore") THEN "TLKL"
    ELSE IF Contains(norm, "the sands") \/ Contains(norm, "sands") THEN "SAN"
    ELSE IF Contains(norm, "the leaf on the sands") \/ Contains(norm, "leaf on the sands") THEN "LFS"
    ELSE IF Contains(norm, "the leaf oceanside") \/ Contains(norm, "leaf oceanside") THEN "LFO"
    ELSE IF Contains(pad, " kt ") THEN "KT"
    ELSE IF Contains(pad, " ts ") THEN "TS"
    ELSE IF Contains(pad, " wat ") THEN "WAT"
    ELSE IF Contains(pad, " tlkl ") THEN "TLKL"
    ELSE IF Contains(pad, " san ") THEN "SAN"
    ELSE IF Contains(pad, " lfs ") THEN "LFS"
    ELSE IF Contains(pad, " lfo ") THEN "LFO"
    ELSE "UNK"

Padded(norm) == HotelCode(norm, " " \o norm \o " ")

infer_hotel(text) == Padded(Strip(SpaceOut(Lower(text), FALSE)))

\* candidates: the Hoteliers files of the same hotel, or all of them
Candidates(buffers, ota_hotel) ==
    LET same(h) == infer_hotel(h.name) = ota_hotel
    IN  IF SelectSeq(buffers, same) = <<>> THEN buffers ELSE SelectSeq(buffers, same)

\* period_matches: the candidates whose name holds the OTA file's period
PeriodMatches(candidates, ota_period) ==
    LET holds(h) == Contains(Lower(h.name), Lower(ota_period.s))
    IN  IF Falsy(ota_period) THEN <<>> ELSE SelectSeq(candidates, holds)

FirstOf(period_matches, candidates) ==
    IF period_matches # <<>> THEN period_matches[1]
    ELSE IF candidates # <<>> THEN candidates[1]
    ELSE None

PickFrom(candidates, ota_period) == FirstOf(PeriodMatches(candidates, ota_period), candidates)

\* best_hot for the OTA file named ota_name
BestHot(buffers, ota_name) ==
    PickFrom(Candidates(buffers, infer_hotel(ota_name)), extract_period_from_name(Text(ota_name)))

\* only_com as process_reconciliation returns it
FinalOnlyCom(ota, oc) == IF BookingRule(ota) THEN RealOnlyCom(ota, oc) ELSE oc

Counts(p, hk, ck, ota) ==
    [raised |-> FALSE, period |-> p, n_hot |-> Cardinality(OnlyHot(hk, ck)),
     n_ota |-> Cardinality(FinalOnlyCom(ota, OnlyCom(hk, ck)))]

CountsOf(hot, ota, p) ==
    Counts(p, HotOutKeys(hot, IncludedRows(hot, p, TargetOta(ota))), ComKeys(ota.rows), ota)

\* process_reconciliation as the batch loop sees it: it raises, or it
\* returns the period and the two counts
process_reconciliation(hot, ota) ==
    IF ~hot.readable \/ ~ota.readable THEN [raised |-> TRUE]
    ELSE CountsOf(hot, ota, TargetPeriod(hot, ota))

\* the message of the try / except around one run
RunMessage(of, result) ==
    IF result.raised
    THEN [kind |-> "error", file |-> of.name]
    ELSE [kind |-> "success", file |-> of.name,
          out_name |-> "Reconcile-" \o infer_hotel(of.name) \o "-" \o Slice(of.name, 1, 10)
                          \o "-" \o result.period \o ".xlsx",
          n_hot |-> result.n_hot, n_ota |-> result.n_ota]

MessageFor(of, best_hot) ==
    IF best_hot # None THEN RunMessage(of, process_reconciliation(best_hot, of))
    ELSE [kind |-> "warning", file |-> of.name]

\* the body of "for of in ota_files": what it shows for the file of
LoopBody(buffers, of) == MessageFor(of, BestHot(buffers, of.name))

BatchHotFiles ==
    {[name |-> "kt dec'25.xlsx", readable |-> TRUE, ota_col |-> TRUE,
      rows |-> <<[res |-> Text("a-1"), dep |-> Date(2025, 12, 3), arr |-> None,
                  chan |-> Text("Booking.com")], TotalRow>>],
     [name |-> "ts hoteliers.xlsx", readable |-> TRUE, ota_col |-> FALSE,
      rows |-> <<[res |-> Text("B"), dep |-> Text("2025-12-03"), arr |-> None, chan |-> None],
                 TotalRow>>],
     [name |-> "old export.xlsx", readable |-> FALSE, ota_col |-> FALSE, rows |-> <<>>]}

BatchOtaFiles ==
    {[name |-> "kt booking dec'25.xlsx", readable |-> TRUE,
      rows |-> <<ComRow(Text("c"), None, 0, 0), ComRow(Text("b"), None, 100, 10)>>],
     [name |-> "ts agoda.xlsx", readable |-> TRUE, rows |-> <<ComRow(Text("A1"), None, 100, 10)>>],
     [name |-> "statement.xlsx", readable |-> TRUE, rows |-> <<ComRow(Text("A1"), None, 100, 10)>>],
     [name |-> "kt agoda.pdf.xlsx", readable |-> FALSE, rows |-> <<>>]}

NonEmptySeqs(S, n) == SeqsUpTo(S, n) \ {<<>>}

BatchInit ==
    /\ pc = "batch"
    /\ hot_buffers \in NonEmptySeqs(BatchHotFiles, MaxHotFiles)
    /\ ota_files \in NonEmptySeqs(BatchOtaFiles, MaxOtaFiles)
    /\ idx = 1
    /\ messages = <<>>
    /\ raw = None /\ key = None /\ key2 = None
    /\ name = None /\ period = None
    /\ hot_name = None /\ com_name = None /\ hot_earliest = None /\ com_earliest = None
    /\ chosen = None
    /\ filter_ota = None /\ cell_val = None /\ is_match = None
    /\ hot_file = None /\ ota_file = None /\ target_period = None /\ included_rows = None
    /\ hot_out_keys = None /\ com_keys = None /\ only_hot = None /\ only_com = None
    /\ hot_fill = None /\ com_fill = None /\ nm = None

\* the loop body without its try / except: the exception ends the script
ProcessFileUncaught ==
    /\ pc = "batch"
    /\ IF LoopBody(hot_buffers, ota_files[idx]).kind = "error"
       THEN pc' = "aborted" /\ UNCHANGED <<idx, messages>>
       ELSE /\ messages' = Append(messages, LoopBody(hot_buffers, ota_files[idx]))
            /\ idx' = idx + 1
            /\ pc' = IF idx = Len(ota_files) THEN "batch_done" ELSE "batch"
    /\ UNCHANGED <<hot_buffers, ota_files, normVars, periodVars, chooseVars, runVars, filterVars>>

\* one iteration of "for of in ota_files"
ProcessFile ==
    /\ pc = "batch"
    /\ messages' = Append(messages, LoopBody(hot_buffers, ota_files[idx]))
    /\ idx' = idx + 1
    /\ pc' = IF idx = Len(ota_files) THEN "batch_done" ELSE "batch"
    /\ UNCHANGED <<hot_buffers, ota_files, normVars, periodVars, chooseVars, runVars, filterVars>>

BatchNext == ProcessFile

\* the script runs the loop synchronously: while it is inside the loop, the
\* loop variable moves on to the next file
LoopRuns == pc = "batch" /\ idx' = idx + 1

BatchSpec == BatchInit /\ [][BatchNext]_vars /\ WF_idx(LoopRuns)

(***************************************************************************)
(* Claims about the pure functions.                                        *)
(***************************************************************************)
\* C4: norm_key returns the upper-cased input with every character that is
\* not an ASCII letter or digit deleted, so its result holds only [A-Z0-9]
\* (checked under NormSpec; the code deletes spaces and hyphens only).
C4_NormKeyKeepsOnlyAlnum ==
    pc \in {"normed", "renormed"} =>
        /\ CharsOf(key) \subseteq UpperAlnum
        /\ key = KeepOnly(Upper(IF raw = None THEN "" ELSE Str(raw)), UpperAlnum)

\* C5: norm_key is idempotent: norm_key(norm_key(x)) = norm_key(x) for every
\* input x (checked under NormSpec).
C5_NormKeyIdempotent == pc = "renormed" => key2 = key

\* the result the four patterns give when tried in the order Mon'YY,
\* Month YYYY, YYYY-MM, MM-YYYY
FirstPatternPeriod(n) ==
    LET m1 == Search(Pat1(n))
        m2 == Search(Pat2(n))
        m3 == Search(Pat3(n))
        m4 == Search(Pat4(n))
    IN  CASE m1 # None -> Text(MONTH_ABBR[MONTH_MAP(m1.g1)] \o "'" \o m1.g2)
          [] m1 = None /\ m2 # None ->
                Text(MONTH_ABBR[MONTH_MAP(Slice(m2.g1, 1, 3))] \o "'" \o Slice(m2.g2, 3, 4))
          [] m1 = None /\ m2 = None /\ m3 # None ->
                Text(MONTH_ABBR[ParseInt(m3.g2)] \o "'" \o Slice(m3.g1, 3, 4))
          [] m1 = None /\ m2 = None /\ m3 = None /\ m4 # None ->
                Text(MONTH_ABBR[ParseInt(m4.g1)] \o "'" \o Slice(m4.g2, 3, 4))
          [] OTHER -> None

\* C6: extract_period_from_name returns the period of the first of the four
\* patterns that matches, None only if none matches, and for each of the
\* twelve months, in its full and its three-letter name, the text
\* "<month name><optional separator>20YY" yields "<Mon>'YY"
\* (checked under PeriodSpec).
C6_ExtractPeriodEveryMonth ==
    (pc = "extracted" /\ ~Falsy(name)) =>
        /\ period = FirstPatternPeriod(Lower(name.s))
        /\ \A m \in 1..12 : \A w \in {FullMonthNames[m], Lower(MONTH_ABBR[m])} :
             \A sep \in {"", " ", "-", "_"} : \A yy \in {"24", "25"} :
                name.s = w \o sep \o "20" \o yy => period = Text(MONTH_ABBR[m] \o "'" \o yy)

\* C7: choose_period always returns a non-null label: the period found in
\* the OTA file name, else the one found in the Hoteliers file name, else the
\* month bucket of the earliest OTA date, else that of the earliest
\* Hoteliers date, else "Period"; with no period in either name and the
\* earliest OTA date 2025-12-03 it returns "Dec'25" (checked under ChooseSpec).
C7_ChoosePeriodChain ==
    pc = "chosen" =>
        LET pcom == extract_period_from_name(com_name)
            phot == extract_period_from_name(hot_name)
            inNames == pcom # None \/ phot # None
        IN  /\ chosen # None /\ chosen.t = "str" /\ chosen.s # ""
            /\ pcom # None => chosen = pcom
            /\ (pcom = None /\ phot # None) => chosen = phot
            /\ (~inNames /\ com_earliest # None) =>
                   chosen = Text(monyy(com_earliest.y, com_earliest.m))
            /\ (~inNames /\ com_earliest = None /\ hot_earliest # None) =>
                   chosen = Text(monyy(hot_earliest.y, hot_earliest.m))
            /\ (~inNames /\ com_earliest = None /\ hot_earliest = None) =>
                   chosen = Text("Period")
            /\ (~inNames /\ com_earliest = Date(2025, 12, 3)) => chosen = Text("Dec'25")

\* C7 witness: neither name carries a period, the earliest OTA date is
\* 2025-12-03 while the Hoteliers side starts in another month, and the
\* label chosen is "Dec'25".
C7_Witness ==
    /\ pc = "chosen"
    /\ extract_period_from_name(com_name) = None
    /\ extract_period_from_name(hot_name) = None
    /\ com_earliest = Date(2025, 12, 3)
    /\ hot_earliest = Date(2025, 11, 20)
    /\ chosen = Text("Dec'25")

(***************************************************************************)
(* Claims about one reconciliation run (Spec).                             *)
(***************************************************************************)
Suppressed == pc \in {"suppressed", "done"}

\* the keys of the Hoteliers rows that passed the period and channel filter
LeftKeys == {norm_key(hot_file.rows[included_rows[j]].res) : j \in 1..Len(included_rows)} \ {""}

\* the keys of the OTA rows
RightKeys == {norm_key(ota_file.rows[r].res) : r \in 1..Len(ota_file.rows)} \ {""}

Matched == LeftKeys \cap RightKeys

\* the amounts of an OTA row
ZeroAmount(row) == FloatOrZero(row.final) = 0 \/ FloatOrZero(row.comm) = 0

BothZero(row) == FloatOrZero(row.final) = 0 /\ FloatOrZero(row.comm) = 0

RowsOfKey(k) == {r \in 1..Len(ota_file.rows) : norm_key(ota_file.rows[r].res) = k}

\* C1: before suppression onlyLeft = L \ R and onlyRight = R \ L for the
\* left keys L that passed the filters and the right keys R; with
\* matched = L \cap R the three sets are pairwise disjoint,
\* matched \cup onlyLeft = L and matched \cup onlyRight = R; suppression
\* afterwards only removes keys and moves none into another set.
C1_Partition ==
    /\ pc = "diffed" =>
          /\ only_hot = LeftKeys \ RightKeys
          /\ only_com = RightKeys \ LeftKeys
          /\ Matched \cap only_hot = {} /\ Matched \cap only_com = {} /\ only_hot \cap only_com = {}
          /\ Matched \cup only_hot = LeftKeys
          /\ Matched \cup only_com = RightKeys
    /\ Suppressed =>
          /\ only_hot \subseteq LeftKeys \ RightKeys
          /\ only_com \subseteq RightKeys \ LeftKeys
          /\ Matched \cap only_hot = {} /\ Matched \cap only_com = {} /\ only_hot \cap only_com = {}

\* C1 witness: a run with a matched key, a left-only key and a right-only
\* key that the Booking.com rule has removed.
C1_Witness ==
    /\ pc = "suppressed"
    /\ Matched # {} /\ only_hot # {}
    /\ only_com # RightKeys \ LeftKeys

Listing(col, S) ==
    /\ Len(col) = Cardinality(S)
    /\ {col[i] : i \in 1..Len(col)} = S
    /\ \A i \in 1..Len(col) : \A j \in 1..Len(col) : i < j => StrLess(col[i], col[j])

\* C9: in the report a data row of the left sheet is marked iff its key is
\* in onlyLeft, a data row of the right sheet is marked iff its key is in
\* the final onlyRight, and the discrepancy sheet lists exactly the keys of
\* onlyLeft and of onlyRight, each once and ascending, under header counts
\* equal to the sizes of the two sets.
C9_ReportMarksAndListing ==
    pc = "done" =>
        /\ \A j \in 1..Len(included_rows) :
              j \in hot_fill <=> norm_key(hot_file.rows[included_rows[j]].res) \in only_hot
        /\ hot_fill \subseteq 1..Len(included_rows)
        /\ \A r \in 1..Len(ota_file.rows) :
              r \in com_fill <=> norm_key(ota_file.rows[r].res) \in only_com
        /\ com_fill \subseteq 1..Len(ota_file.rows)
        /\ Listing(nm.hot_col, only_hot)
        /\ Listing(nm.com_col, only_com)
        /\ nm.hot_count = Cardinality(only_hot)
        /\ nm.com_count = Cardinality(only_com)

\* C9 witness: a report with two left-only keys and a right-only key, rows
\* marked on both sheets.
C9_Witness ==
    /\ pc = "done"
    /\ Cardinality(only_hot) = 2 /\ only_com # {}
    /\ hot_fill # {} /\ com_fill # {}
    /\ Matched = {}

\* the data rows of the Hoteliers sheet with a key and no parseable date
UndatedRows ==
    {i \in 1..DataEnd(hot_file.rows) :
        norm_key(hot_file.rows[i].res) # "" /\ RowDate(hot_file.rows[i]) = None}

InSeq(x, q) == \E j \in 1..Len(q) : q[j] = x

\* C10: a left row with a key and no parseable departure or arrival date is
\* placed in the "Unknown" bucket by extraction, and over the run it is
\* still accounted for in the output: it is on the left sheet or its key is
\* in the discrepancy result.
C10_UndatedRowsAccountedFor ==
    /\ \A i \in (IF pc = "run" THEN {} ELSE UndatedRows) :
          InSeq(i, RowsByPeriod(hot_file.rows, "Unknown"))
    /\ pc = "done" =>
          \A i \in UndatedRows :
              \/ InSeq(i, included_rows)
              \/ norm_key(hot_file.rows[i].res) \in (only_hot \cup only_com)

(***************************************************************************)
(* Claims about the batch loop (BatchSpec).                                *)
(***************************************************************************)
Failing(of) == LoopBody(hot_buffers, of).kind = "error"

NotFailing(of) == ~Failing(of)

NotError(m) == m.kind # "error"

\* the messages of a batch over the OTA files of the sequence files
BatchMessages(files) == [j \in 1..Len(files) |-> LoopBody(hot_buffers, files[j])]

C11_FilterContainsEitherWay ==
    (pc = "matched" /\ filter_ota # "" /\ filter_ota # "OTA") =>
        (is_match <=>
            \/ canon_ota(Str(cell_val)) = canon_ota(filter_ota)
            \/ Contains(canon_ota(Str(cell_val)), canon_ota(filter_ota))
            \/ Contains(canon_ota(filter_ota), canon_ota(Str(cell_val))))

(***************************************************************************)
(* Claims about the fallback of the channel filter (Spec).                 *)
(***************************************************************************)
\* the filter of step 4 kept no row although the period has rows
FellBackOn(hot, ota, p) ==
    /\ hot.ota_col
    /\ RowsByPeriod(hot.rows, p) # <<>>
    /\ Filtered(hot, RowsByPeriod(hot.rows, p), TargetOta(ota)) = <<>>

FellBack == FellBackOn(hot_file, ota_file, target_period)

\* the same Hoteliers sheet with every channel cell reading label
Relabelled(hot, label) ==
    [hot EXCEPT !.rows = [i \in DOMAIN hot.rows |-> [hot.rows[i] EXCEPT !.chan = Text(label)]]]

\* what a run hands back: the period, the copied rows and the two key sets
\* (the fills, the NotMatched sheet and the counts follow from them)
OutcomeOn(hot, ota, p, rows_in) ==
    [period |-> p, included_rows |-> rows_in,
     only_hot |-> OnlyHot(HotOutKeys(hot, rows_in), ComKeys(ota.rows)),
     only_com |-> FinalOnlyCom(ota, OnlyCom(HotOutKeys(hot, rows_in), ComKeys(ota.rows)))]

OutcomeOf(hot, ota) ==
    OutcomeOn(hot, ota, TargetPeriod(hot, ota),
              IncludedRows(hot, TargetPeriod(hot, ota), TargetOta(ota)))

Outcome ==
    [period |-> target_period, included_rows |-> included_rows,
     only_hot |-> only_hot, only_com |-> only_com]

\* C12: when the channel filter keeps no row although the period has rows,
\* the run falls back to all rows of the period, is not reported as an
\* error, and its outcome differs from the outcome of the run on the same
\* sheets in which the filter matched those rows.
C12_FallbackIsSurfaced ==
    (pc = "done" /\ FellBack) =>
        /\ included_rows = RowsByPeriod(hot_file.rows, target_period)
        /\ ~process_reconciliation(hot_file, ota_file).raised
        /\ ~FellBackOn(Relabelled(hot_file, TargetOta(ota_file)), ota_file, target_period)
        /\ Outcome # OutcomeOf(Relabelled(hot_file, TargetOta(ota_file)), ota_file)

====
